---- MODULE Spec2Model ----
(***************************************************************************)
(* A model of OHEditor (src/openhands_aci/editor/editor.py): the command   *)
(* dispatcher, the str_replace mutation resolver, insert, view, undo_edit  *)
(* and the per-path history ledger.  File contents and string parameters   *)
(* are sequences of one-character strings; the Python string methods the   *)
(* editor calls are operators that compute what the methods compute.       *)
(***************************************************************************)
EXTENDS Integers, Sequences, FiniteSets, TLC

NL == "\n"
TAB == "\t"
SP == " "

\* str.expandtabs() is called without an argument: Python's tab stop is 8.
TabSize == 8

\* Bounds of the model.
MaxCmds == 4
MaxInitLen == 4
MaxCallLen == 3

----------------------------------------------------------------------------
(* Python string methods *)

Max(a, b) == IF a >= b THEN a ELSE b
Min(a, b) == IF a <= b THEN a ELSE b

Spaces(n) == [i \in 1..n |-> SP]

\* s[i:j] with Python's 0-indexed, end-exclusive bounds (0 <= i, clipped to len).
Slice(s, i, j) == SubSeq(s, i + 1, Min(j, Len(s)))

RECURSIVE expandFrom(_, _, _)
expandFrom(s, i, col) ==
    IF i > Len(s) THEN <<>>
    ELSE IF s[i] = TAB
         THEN LET incr == TabSize - (col % TabSize)
              IN  Spaces(incr) \o expandFrom(s, i + 1, col + incr)
         ELSE IF s[i] = NL
              THEN <<NL>> \o expandFrom(s, i + 1, 0)
              ELSE <<s[i]>> \o expandFrom(s, i + 1, col + 1)

\* str.expandtabs(): every tab becomes the spaces up to the next tab stop; the
\* column restarts after a newline.
expandtabs(s) == expandFrom(s, 1, 0)

\* s.startswith(sub, i), 0-indexed i.
StartsAt(s, sub, i) ==
    /\ i >= 0
    /\ i + Len(sub) <= Len(s)
    /\ \A k \in 1..Len(sub) : s[i + k] = sub[k]

\* s.find(sub, start): lowest index >= start where sub occurs, -1 when none.
find(s, sub, start) ==
    LET hits == {i \in start..Len(s) : StartsAt(s, sub, i)}
    IN  IF hits = {} THEN -1 ELSE CHOOSE i \in hits : \A j \in hits : i <= j

RECURSIVE countFrom(_, _, _)
countFrom(s, sub, pos) ==
    LET idx == find(s, sub, pos)
    IN  IF idx = -1 THEN 0 ELSE 1 + countFrom(s, sub, idx + Len(sub))

\* A count that never reports zero.
count_at_least_one(s, sub) ==
    IF sub = <<>> THEN Len(s) + 1 ELSE Max(1, countFrom(s, sub, 0))

\* s.count(sub): non-overlapping occurrences, scanning left to right; the empty
\* string occurs len(s) + 1 times.
count(s, sub) == IF sub = <<>> THEN Len(s) + 1 ELSE countFrom(s, sub, 0)

\* s.count('\n', 0, idx)
countNL(s, idx) == Cardinality({k \in 1..Min(idx, Len(s)) : s[k] = NL})

RECURSIVE replaceFrom(_, _, _, _)
replaceFrom(s, old, new, pos) ==
    LET idx == find(s, old, pos)
    IN  IF idx = -1 THEN Slice(s, pos, Len(s))
        ELSE Slice(s, pos, idx) \o new \o replaceFrom(s, old, new, idx + Len(old))

RECURSIVE interleave(_, _, _)
interleave(s, new, i) ==
    IF i > Len(s) THEN new ELSE new \o <<s[i]>> \o interleave(s, new, i + 1)

\* A replace that puts `new` in front of each occurrence and leaves `old` there.
replace_keeping_old(s, old, new) ==
    IF old = <<>> THEN interleave(s, new, 1) ELSE replaceFrom(s, old, new \o old, 0)

\* s.replace(old, new): every non-overlapping occurrence, left to right; an empty
\* old matches before every character and at the end.
replace(s, old, new) ==
    IF old = <<>> THEN interleave(s, new, 1) ELSE replaceFrom(s, old, new, 0)

RECURSIVE split(_)
\* s.split('\n')
split(s) ==
    LET idx == find(s, <<NL>>, 0)
    IN  IF idx = -1 THEN <<s>>
        ELSE <<Slice(s, 0, idx)>> \o split(Slice(s, idx + 1, Len(s)))

RECURSIVE join(_)
\* '\n'.join(lines)
join(lines) ==
    IF lines = <<>> THEN <<>>
    ELSE IF Len(lines) = 1 THEN lines[1]
         ELSE lines[1] \o <<NL>> \o join(Tail(lines))

\* s.splitlines(): like split('\n') but a final newline ends the last line
\* instead of opening an empty one, and '' has no lines.
splitlines(s) ==
    LET parts == split(s)
    IN  IF parts[Len(parts)] = <<>> THEN SubSeq(parts, 1, Len(parts) - 1) ELSE parts

\* min(xs), max(xs) of a non-empty list
ListMin(xs) == CHOOSE x \in {xs[i] : i \in 1..Len(xs)} : \A j \in 1..Len(xs) : x <= xs[j]
ListMax(xs) == CHOOSE x \in {xs[i] : i \in 1..Len(xs)} : \A j \in 1..Len(xs) : x >= xs[j]

(* re.sub, for the patterns the model draws: literal characters, "." (any
   character; a newline only under re.DOTALL) and a leading "^" (start of the
   string: the editor never passes re.MULTILINE).  Every such pattern matches
   strings of one fixed length. *)
Anchored(p) == p # <<>> /\ p[1] = "^"
PatBody(p) == IF Anchored(p) THEN Tail(p) ELSE p

MatchAt(s, p, i, dotall) ==
    LET body == PatBody(p)
    IN  /\ i >= 0
        /\ i + Len(body) <= Len(s)
        /\ Anchored(p) => i = 0
        /\ \A k \in 1..Len(body) :
              IF body[k] = "." THEN dotall \/ s[i + k] # NL ELSE s[i + k] = body[k]

\* pattern.search(s, pos): start of the leftmost match at or after pos, -1 when none.
search(s, p, pos, dotall) ==
    LET hits == {i \in pos..Len(s) : MatchAt(s, p, i, dotall)}
    IN  IF hits = {} THEN -1 ELSE CHOOSE i \in hits : \A j \in hits : i <= j

RECURSIVE subFrom(_, _, _, _, _, _)
subFrom(s, p, repl, pos, left, dotall) ==
    LET i == search(s, p, pos, dotall)
        n == Len(PatBody(p))
    IN  IF left = 0 \/ i = -1 THEN Slice(s, pos, Len(s))
        ELSE IF n = 0
             THEN \* an empty match: the scan moves on by one character
                  Slice(s, pos, i) \o repl \o
                  (IF i < Len(s)
                   THEN <<s[i + 1]>> \o subFrom(s, p, repl, i + 1, left - 1, dotall)
                   ELSE <<>>)
             ELSE Slice(s, pos, i) \o repl \o subFrom(s, p, repl, i + n, left - 1, dotall)

\* A substitution that does not look at its count.
re_sub_ignoring_count(p, repl, s, cnt, dotall) == subFrom(s, p, repl, 0, -1, dotall)

\* re.sub(pattern, repl, s, count, flags): the leftmost non-overlapping matches
\* are replaced, at most `cnt` of them, all of them when cnt = 0.
re_sub(p, repl, s, cnt, dotall) ==
    subFrom(s, p, repl, 0, IF cnt = 0 THEN -1 ELSE cnt, dotall)

----------------------------------------------------------------------------
(* The editor *)

\* Paths the commands name: two files, a directory, and a relative path.
Paths == {"/f1", "/f2", "/d", "f3"}
RelativePaths == {"f3"}

\* An absent optional parameter (Python's None) where a string is expected.
None == <<"None">>
\* An absent insert_line.
NoLine == -99

NoFile == [kind |-> "none", text |-> <<>>]
Dir == [kind |-> "dir", text |-> <<>>]
File(text) == [kind |-> "file", text |-> text]

VARIABLES
    fs,            \* the file system: path -> NoFile, Dir or File(text)
    file_history,  \* OHEditor._file_history: path -> list of snapshots
    last,          \* the last command: what the path held before it, and the
                   \* result or exception it ended with
    req,           \* the request under test when one command is checked on its
                   \* own (its parameters, for each file content); NoRequest in
                   \* a session, whose commands arrive one after the other
    ncmds,         \* commands issued so far
    pushes,        \* path -> successful create / str_replace / insert commands
    undos,         \* path -> successful undo_edit commands
    inflight       \* the call that has read the file and not yet written it:
                   \* its local variable file_content, as read_file returned it

vars == <<fs, file_history, last, req, ncmds, pushes, undos, inflight>>

\* No call is between its read and its write.
Idle == [pc |-> "idle", file_content |-> <<>>]

\* What reading and writing the file does in one command: "ok"; the read
\* raises; the write raises and leaves the file as it was (open() refused); the
\* write raises after open() truncated the file.
IO == {"ok", "read_fail", "write_denied", "write_torn"}

\* Path.write_text inside write_file: the file's new state, and whether it raised.
write_file(f, text, io) ==
    IF io = "write_denied" THEN [file |-> f, raised |-> TRUE]
    ELSE IF io = "write_torn" THEN [file |-> File(<<>>), raised |-> TRUE]
    ELSE [file |-> File(text), raised |-> FALSE]

\* The check without its create-on-an-existing-path case.
validate_path_overwriting(command, path, f) ==
    IF path \in RelativePaths THEN "InvalidPath:relative"
    ELSE IF command # "create" /\ f.kind = "none" THEN "InvalidPath:missing"
    ELSE IF command # "view" /\ f.kind = "dir" THEN "InvalidPath:directory"
    ELSE "none"

\* validate_path: the exception it raises, "none" when it returns.
validate_path(command, path, f) ==
    IF path \in RelativePaths THEN "InvalidPath:relative"
    ELSE IF command = "create" /\ f.kind # "none" THEN "InvalidPath:exists"
    ELSE IF command # "create" /\ f.kind = "none" THEN "InvalidPath:missing"
    ELSE IF command # "view" /\ f.kind = "dir" THEN "InvalidPath:directory"
    ELSE "none"

\* The lower bound off by one: line 0 passes.
validate_min_or_max_from_zero(min_line, max_line, num_lines) ==
    min_line < 0 \/ num_lines < max_line

\* validate_min_or_max inside str_replace: TRUE when it raises.
validate_min_or_max(min_line, max_line, num_lines) ==
    min_line <= 0 \/ num_lines < max_line

\* The "Validate line numbers" block of str_replace: the ToolError it raises
\* ("none" when every check passes).  An empty list is falsy and is not checked.
ValidateLines(a, num_lines) ==
    IF a.line_numbers # <<>>
       /\ validate_min_or_max(ListMin(a.line_numbers), ListMax(a.line_numbers), num_lines)
    THEN "InvalidLine:line_numbers"
    ELSE IF a.line_range # <<>>
            /\ validate_min_or_max(ListMin(a.line_range), ListMax(a.line_range), num_lines)
    THEN "InvalidLine:line_range"
    ELSE IF a.line_range # <<>> /\ a.line_range[1] > a.line_range[2]
    THEN "InvalidLine:line_range_order"
    ELSE IF a.delete_lines # <<>>
            /\ validate_min_or_max(ListMin(a.delete_lines), ListMax(a.delete_lines), num_lines)
    THEN "InvalidLine:delete_lines"
    ELSE IF a.delete_range # <<>>
            /\ validate_min_or_max(ListMin(a.delete_range), ListMax(a.delete_range), num_lines)
    THEN "InvalidLine:delete_range"
    ELSE IF a.delete_range # <<>> /\ a.delete_range[1] > a.delete_range[2]
    THEN "InvalidLine:delete_range_order"
    ELSE "none"

\* The substitution applied to one line in the line_numbers / line_range branches.
SubstLine(line, old, new, regex) ==
    IF regex THEN re_sub(old, new, line, 0, TRUE) ELSE replace(line, old, new)

RECURSIVE ReplaceOnLines(_, _, _, _, _)
\* for i in replace_lines: if i < len(lines): lines[i] = substitution(lines[i]).
\* idxs are 0-indexed; the validation above leaves none negative.
ReplaceOnLines(lines, idxs, old, new, regex) ==
    IF idxs = <<>> THEN lines
    ELSE LET i == idxs[1]
             next == IF i >= 0 /\ i < Len(lines)
                     THEN [lines EXCEPT ![i + 1] = SubstLine(lines[i + 1], old, new, regex)]
                     ELSE lines
         IN  ReplaceOnLines(next, Tail(idxs), old, new, regex)

\* list(range(lo, hi))
Range(lo, hi) == [k \in 1..Max(0, hi - lo) |-> lo + k - 1]

RECURSIVE OccurrenceLines(_, _, _)
\* The while-loop that collects the line of every occurrence for the
\* multiple-occurrences error: find from start_idx, then start_idx = idx + 1.
OccurrenceLines(content, old, start_idx) ==
    LET idx == find(content, old, start_idx)
    IN  IF idx = -1 THEN <<>>
        ELSE <<countNL(content, idx) + 1>> \o OccurrenceLines(content, old, idx + 1)

\* The comprehension with `drop` taken as 1-indexed positions.
SelectLines_one_indexed(lines, drop) ==
    LET F[k \in 0..Len(lines)] ==
            IF k = 0 THEN <<>>
            ELSE IF k \in drop THEN F[k - 1] ELSE Append(F[k - 1], lines[k])
    IN  F[Len(lines)]

\* [line for i, line in enumerate(lines) if not i in drop], drop 0-indexed.
SelectLines(lines, drop) ==
    LET F[k \in 0..Len(lines)] ==
            IF k = 0 THEN <<>>
            ELSE IF (k - 1) \in drop THEN F[k - 1] ELSE Append(F[k - 1], lines[k])
    IN  F[Len(lines)]

\* One replace over the whole content instead of one per line.
replace_all_content(file_content, old, new) == replace(file_content, old, new)

\* line_all with regex off: file_content.splitlines(), line.replace(old_str,
\* new_str) on each line, '\n'.join of the results.
replace_all_lines(file_content, old, new) ==
    LET ls == splitlines(file_content)
    IN  join([k \in 1..Len(ls) |-> replace(ls[k], old, new)])

\* The branch of str_replace that computes the new content.
Branch(a) ==
    IF a.delete_lines # <<>> THEN "delete_lines"
    ELSE IF a.delete_range # <<>> THEN "delete_range"
    ELSE IF ~a.line_all
         THEN IF a.line_numbers # <<>> THEN "line_numbers"
              ELSE IF a.line_range # <<>> THEN "line_range"
              ELSE "first"
         ELSE "line_all"

\* str_replace from the tab expansion to the computed content: what it raises
\* before writing, or the content it is about to write.
Resolve(content, a) ==
    LET file_content == expandtabs(content)
        old == expandtabs(a.old_str)
        new == IF a.new_str = None THEN <<>> ELSE expandtabs(a.new_str)
        lines == split(file_content)
        num_lines == Len(lines)
        bad == ValidateLines(a, num_lines)
        br == Branch(a)
        occurrences == count(file_content, old)
        ok(text) == [raises |-> "none", info |-> <<>>, branch |-> br,
                     file_content |-> file_content, new_file_content |-> text]
        raise(e, info) == [raises |-> e, info |-> info, branch |-> br,
                           file_content |-> file_content, new_file_content |-> <<>>]
    IN  IF bad # "none" THEN raise(bad, <<>>)
        ELSE IF br = "delete_lines"
        THEN ok(join(SelectLines(lines,
                 {a.delete_lines[k] - 1 : k \in 1..Len(a.delete_lines)})))
        ELSE IF br = "delete_range"
        THEN ok(join(SelectLines(lines,
                 {i \in 0..(num_lines - 1) :
                     a.delete_range[1] <= i + 1 /\ i + 1 <= a.delete_range[2]})))
        ELSE IF br = "line_numbers"
        THEN ok(join(ReplaceOnLines(lines,
                 [k \in 1..Len(a.line_numbers) |-> a.line_numbers[k] - 1],
                 old, new, a.regex)))
        ELSE IF br = "line_range"
        THEN ok(join(ReplaceOnLines(lines,
                 Range(a.line_range[1] - 1, a.line_range[2]), old, new, a.regex)))
        ELSE IF br = "first"
        THEN IF a.regex THEN ok(re_sub(old, new, file_content, 1, FALSE))
             ELSE IF occurrences = 0 THEN raise("NotFound", <<>>)
             ELSE IF occurrences > 1
                  THEN raise("Ambiguous", OccurrenceLines(file_content, old, 0))
                  ELSE ok(replace(file_content, old, new))
        ELSE IF a.regex THEN ok(re_sub(old, new, file_content, 0, TRUE))
             ELSE ok(replace_all_lines(file_content, old, new))

\* maybe_truncate: content below the truncation threshold is returned as it is.
maybe_truncate(content) == content

\* A `cat -n` block that always counts from 1, whatever its first line is.
make_output_from_one(snippet_content, start_line) ==
    LET ls == split(expandtabs(maybe_truncate(snippet_content)))
    IN  [k \in 1..Len(ls) |-> <<k, ls[k]>>]

\* _make_output: the numbered lines of the `cat -n` block, as <<number, line>>.
make_output(snippet_content, start_line) ==
    LET ls == split(expandtabs(maybe_truncate(snippet_content)))
    IN  [k \in 1..Len(ls) |-> <<k - 1 + start_line, ls[k]>>]

\* SNIPPET_CONTEXT_WINDOW of config.py: the fixed number of lines a snippet
\* shows before and after a change.
SNIPPET_CONTEXT_WINDOW == 1

\* The snippet of str_replace: the window is placed on the line of the first
\* literal occurrence of old_str in the content that was read (the whole
\* content's newline count when old_str does not occur in it).
replace_snippet(file_content, old_str, new_str, new_file_content) ==
    LET idx == find(file_content, old_str, 0)
        replacement_line == countNL(file_content,
                                    IF idx = -1 THEN Len(file_content) ELSE idx)
        start_line == Max(0, replacement_line - SNIPPET_CONTEXT_WINDOW)
        end_line == replacement_line + SNIPPET_CONTEXT_WINDOW
                    + countNL(new_str, Len(new_str))
        snippet == join(Slice(split(new_file_content), start_line, end_line + 1))
    IN  make_output(snippet, start_line + 1)

\* The snippet of insert: the lines before the insertion point, the inserted
\* lines, the lines after it.
insert_snippet(file_text_lines, insert_line, new_str_lines) ==
    LET num_lines == Len(file_text_lines)
        snippet_lines ==
            Slice(file_text_lines, Max(0, insert_line - SNIPPET_CONTEXT_WINDOW), insert_line)
            \o new_str_lines
            \o Slice(file_text_lines, insert_line,
                     Min(num_lines, insert_line + SNIPPET_CONTEXT_WINDOW))
    IN  make_output(join(snippet_lines), Max(1, insert_line - SNIPPET_CONTEXT_WINDOW + 1))

Mutating == {"create", "str_replace", "insert"}

\* The end of one command (OHEditor.__call__ returning or raising): the path's
\* file and history as the command left them, and the record of the call.
Finish(cmd, path, args, err, out, file, hist) ==
    /\ fs' = [fs EXCEPT ![path] = file]
    /\ file_history' = [file_history EXCEPT ![path] = hist]
    /\ last' = [cmd |-> cmd, path |-> path, pre |-> fs[path],
                status |-> IF err = "none" THEN "ok" ELSE "error",
                err |-> err, out |-> out]
    /\ req' = req
    /\ ncmds' = ncmds + 1
    /\ pushes' = IF err = "none" /\ cmd \in Mutating
                 THEN [pushes EXCEPT ![path] = @ + 1] ELSE pushes
    /\ undos' = IF err = "none" /\ cmd = "undo_edit"
                THEN [undos EXCEPT ![path] = @ + 1] ELSE undos
    /\ inflight' = Idle

\* A command that raised before it touched the file or the history.
Raise(cmd, path, args, err) ==
    Finish(cmd, path, args, err, <<>>, fs[path], file_history[path])

\* A truth test in place of the comparison with None: '' is falsy too.
is_falsy(parameter) == parameter = None \/ parameter = <<>>

\* `if <parameter> is None` in __call__, for the string parameters.
is_None(parameter) == parameter = None

\* command == 'create'
create(path, file_text, io) ==
    LET args == [file_text |-> file_text]
        bad == validate_path("create", path, fs[path])
        w == write_file(fs[path], file_text, io)
    IN  IF bad # "none" THEN Raise("create", path, args, bad)
        ELSE IF is_None(file_text) THEN Raise("create", path, args, "Missing:file_text")
        ELSE IF w.raised
        THEN Finish("create", path, args, "IOError:write", <<>>, w.file, file_history[path])
        ELSE Finish("create", path, args, "none", [new_content |-> file_text],
                    w.file, Append(file_history[path], file_text))

\* The guard left out.
noop_guard_missing(old_str, new_str) == FALSE

\* `if new_str == old_str` in __call__: the parameters as they were passed.
noop_guard(old_str, new_str) == new_str = old_str

\* command == 'str_replace': the guards of __call__, then OHEditor.str_replace.
\* `read` is what read_file returned; the write goes to the file as it is then.
str_replace_with(path, a, io, read) ==
    LET bad == validate_path("str_replace", path, fs[path])
        r == Resolve(read, a)
        w == write_file(fs[path], r.new_file_content, io)
        pushed == Append(file_history[path], r.file_content)
        new == IF a.new_str = None THEN <<>> ELSE expandtabs(a.new_str)
        result == [branch |-> r.branch, old_content |-> r.file_content,
                   new_content |-> r.new_file_content, snippet |-> <<>>]
        out == [result EXCEPT !.snippet =
                   replace_snippet(r.file_content, expandtabs(a.old_str), new,
                                   r.new_file_content)]
    IN  IF bad # "none" THEN Raise("str_replace", path, a, bad)
        ELSE IF is_None(a.old_str) THEN Raise("str_replace", path, a, "Missing:old_str")
        ELSE IF noop_guard(a.old_str, a.new_str) THEN Raise("str_replace", path, a, "NoOp")
        ELSE IF io = "read_fail" THEN Raise("str_replace", path, a, "IOError:read")
        ELSE IF r.raises # "none"
        THEN \* the ToolError, with what its message names
             Finish("str_replace", path, a, r.raises,
                    [lines |-> r.info, old_str |-> expandtabs(a.old_str), path |-> path],
                    fs[path], file_history[path])
        ELSE IF w.raised
        THEN Finish("str_replace", path, a, "IOError:write", <<>>,
                    w.file, file_history[path])
        ELSE IF r.branch \in {"delete_lines", "delete_range"}
        THEN \* returns at once, with no snippet
             Finish("str_replace", path, a, "none", result, w.file, pushed)
        ELSE IF expandtabs(a.old_str) = <<>>
        THEN \* file_content.split(old_str) raises ValueError: empty separator
             Finish("str_replace", path, a, "ValueError", result, w.file, pushed)
        ELSE Finish("str_replace", path, a, "none", out, w.file, pushed)

\* command == 'str_replace', the read and the write in one step
str_replace(path, a, io) == str_replace_with(path, a, io, fs[path].text)

\* The splice one line too late.
new_file_text_lines_off_by_one(file_text_lines, insert_line, new_str_lines) ==
    SubSeq(file_text_lines, 1, insert_line + 1) \o new_str_lines
    \o SubSeq(file_text_lines, insert_line + 2, Len(file_text_lines))

\* file_text_lines[:insert_line] + new_str_lines + file_text_lines[insert_line:]
new_file_text_lines(file_text_lines, insert_line, new_str_lines) ==
    SubSeq(file_text_lines, 1, insert_line) \o new_str_lines
    \o SubSeq(file_text_lines, insert_line + 1, Len(file_text_lines))

\* command == 'insert': the guards of __call__, then OHEditor.insert.
\* `read` is what read_file returned; the write goes to the file as it is then.
insert_with(path, insert_line, new_str, io, read) ==
    LET args == [insert_line |-> insert_line, new_str |-> new_str]
        bad == validate_path("insert", path, fs[path])
        file_text == expandtabs(read)
        new == expandtabs(new_str)
        file_text_lines == split(file_text)
        num_lines == Len(file_text_lines)
        new_file_text == join(new_file_text_lines(file_text_lines, insert_line, split(new)))
        w == write_file(fs[path], new_file_text, io)
    IN  IF bad # "none" THEN Raise("insert", path, args, bad)
        ELSE IF insert_line = NoLine THEN Raise("insert", path, args, "Missing:insert_line")
        ELSE IF is_None(new_str) THEN Raise("insert", path, args, "Missing:new_str")
        ELSE IF io = "read_fail" THEN Raise("insert", path, args, "IOError:read")
        ELSE IF insert_line < 0 \/ insert_line > num_lines
        THEN Raise("insert", path, args, "InvalidInsertLine")
        ELSE IF w.raised
        THEN Finish("insert", path, args, "IOError:write", <<>>,
                    w.file, file_history[path])
        ELSE Finish("insert", path, args, "none",
                    [old_content |-> file_text, new_content |-> new_file_text,
                     snippet |-> insert_snippet(file_text_lines, insert_line, split(new))],
                    w.file, Append(file_history[path], file_text))

\* command == 'insert', the read and the write in one step
insert(path, insert_line, new_str, io) ==
    insert_with(path, insert_line, new_str, io, fs[path].text)

\* list.pop() with the check that guards it skipped: an empty list raises.
undo_guard_unchecked(h) == IF h = <<>> THEN "IndexError" ELSE "none"

\* `if not self._file_history[path]: raise ToolError('No edit history ...')`
undo_guard(h) == IF h = <<>> THEN "NoHistory" ELSE "none"

\* A pop from the wrong end of the list.
history_pop_first(h) == [item |-> h[1], rest |-> Tail(h)]

\* self._file_history[path].pop(): the last entry, and the list without it.
history_pop(h) == [item |-> h[Len(h)], rest |-> SubSeq(h, 1, Len(h) - 1)]

\* command == 'undo_edit'
undo_edit(path, io) ==
    LET bad == validate_path("undo_edit", path, fs[path])
        h == file_history[path]
        old_text == history_pop(h).item
        popped == history_pop(h).rest
        w == write_file(fs[path], old_text, io)
    IN  IF bad # "none" THEN Raise("undo_edit", path, <<>>, bad)
        ELSE IF undo_guard(h) # "none" THEN Raise("undo_edit", path, <<>>, undo_guard(h))
        ELSE IF io = "read_fail" THEN Raise("undo_edit", path, <<>>, "IOError:read")
        ELSE IF w.raised
        THEN Finish("undo_edit", path, <<>>, "IOError:write", <<>>, w.file, popped)
        ELSE Finish("undo_edit", path, <<>>, "none",
                    [old_content |-> expandtabs(fs[path].text), new_content |-> old_text],
                    w.file, popped)

\* The commands of the Command type, which __call__ dispatches on.
Command == {"view", "create", "str_replace", "insert", "undo_edit"}

\* The command enum of the published tool schema (tool.py, PARAMETERS).
SchemaCommands == Command \cup {"delete"}

\* __call__ with a command that matches none of its branches: the path is
\* validated, then the call falls through to the last raise.
unrecognized(command, path, args) ==
    LET bad == validate_path(command, path, fs[path])
    IN  IF bad # "none" THEN Raise(command, path, args, bad)
        ELSE Raise(command, path, args, "UnrecognizedCommand")

\* A view that writes the tab-expanded text it shows back to the file.
view_writing_back(path, view_range, io) ==
    LET args == [view_range |-> view_range]
        bad == validate_path("view", path, fs[path])
        file_content == fs[path].text
        file_content_lines == split(file_content)
        num_lines == Len(file_content_lines)
        start_line == view_range[1]
        end_line == view_range[2]
        shown == IF end_line = -1
                 THEN SubSeq(file_content_lines, start_line, num_lines)
                 ELSE SubSeq(file_content_lines, start_line, end_line)
        done(out) == Finish("view", path, args, "none", out,
                           IF fs[path].kind = "file"
                           THEN File(expandtabs(fs[path].text)) ELSE fs[path],
                           file_history[path])
    IN  IF bad # "none" THEN Raise("view", path, args, bad)
        ELSE IF fs[path].kind = "dir"
        THEN IF view_range # <<>> THEN Raise("view", path, args, "InvalidViewRange:directory")
             ELSE done([listing |-> path])
        ELSE IF io = "read_fail" THEN Raise("view", path, args, "IOError:read")
        ELSE IF view_range = <<>> THEN done([output |-> make_output(file_content, 1)])
        ELSE IF Len(view_range) # 2 THEN Raise("view", path, args, "InvalidViewRange:shape")
        ELSE IF start_line < 1 \/ start_line > num_lines
        THEN Raise("view", path, args, "InvalidViewRange:start")
        ELSE IF end_line > num_lines THEN Raise("view", path, args, "InvalidViewRange:end")
        ELSE IF end_line # -1 /\ end_line < start_line
        THEN Raise("view", path, args, "InvalidViewRange:order")
        ELSE done([output |-> make_output(join(shown), start_line)])

\* command == 'view'
view(path, view_range, io) ==
    LET args == [view_range |-> view_range]
        bad == validate_path("view", path, fs[path])
        file_content == fs[path].text
        file_content_lines == split(file_content)
        num_lines == Len(file_content_lines)
        start_line == view_range[1]
        end_line == view_range[2]
        shown == IF end_line = -1
                 THEN SubSeq(file_content_lines, start_line, num_lines)
                 ELSE SubSeq(file_content_lines, start_line, end_line)
        done(out) == Finish("view", path, args, "none", out, fs[path], file_history[path])
    IN  IF bad # "none" THEN Raise("view", path, args, bad)
        ELSE IF fs[path].kind = "dir"
        THEN IF view_range # <<>> THEN Raise("view", path, args, "InvalidViewRange:directory")
             ELSE done([listing |-> path])
        ELSE IF io = "read_fail" THEN Raise("view", path, args, "IOError:read")
        ELSE IF view_range = <<>> THEN done([output |-> make_output(file_content, 1)])
        ELSE IF Len(view_range) # 2 THEN Raise("view", path, args, "InvalidViewRange:shape")
        ELSE IF start_line < 1 \/ start_line > num_lines
        THEN Raise("view", path, args, "InvalidViewRange:start")
        ELSE IF end_line > num_lines THEN Raise("view", path, args, "InvalidViewRange:end")
        ELSE IF end_line # -1 /\ end_line < start_line
        THEN Raise("view", path, args, "InvalidViewRange:order")
        ELSE done([output |-> make_output(join(shown), start_line)])

----------------------------------------------------------------------------
(* The commands a session issues *)

Args(old, new, ln, lr, la, dl, dr, rx) ==
    [old_str |-> old, new_str |-> new, line_numbers |-> ln, line_range |-> lr,
     line_all |-> la, delete_lines |-> dl, delete_range |-> dr, regex |-> rx]

SessionPaths == {"/f1", "/f2"}

SessionReplaceArgs ==
    { Args(<<"a">>, <<"b">>, <<>>, <<>>, FALSE, <<>>, <<>>, FALSE),
      Args(<<>>, <<"b">>, <<>>, <<>>, TRUE, <<>>, <<>>, FALSE),
      Args(<<"a">>, None, <<>>, <<>>, FALSE, <<1>>, <<>>, FALSE) }

SessionTexts == {<<TAB, "a">>}
SessionInserts == {<<0, <<"b">>>>, <<3, <<"b">>>>}
SessionViews == {<<>>, <<2, 1>>}
SessionContents == {<<"a", NL, "a">>, <<"a", TAB, "b">>}
SessionIO == {"ok", "write_denied"}

NoRequest == [cmd |-> "none"]

Init ==
    /\ \E c \in SessionContents :
          fs = [p \in Paths |-> IF p = "/f1" THEN File(c)
                                ELSE IF p = "/d" THEN Dir ELSE NoFile]
    /\ file_history = [p \in Paths |-> <<>>]
    /\ last = [cmd |-> "none", path |-> "/f1", pre |-> NoFile,
               status |-> "ok", err |-> "none", out |-> <<>>]
    /\ req = NoRequest
    /\ ncmds = 0
    /\ pushes = [p \in Paths |-> 0]
    /\ undos = [p \in Paths |-> 0]
    /\ inflight = Idle

Create ==
    /\ ncmds < MaxCmds
    /\ \E p \in SessionPaths, t \in SessionTexts, io \in SessionIO : create(p, t, io)
StrReplace ==
    /\ ncmds < MaxCmds
    /\ \E p \in SessionPaths, a \in SessionReplaceArgs, io \in SessionIO : str_replace(p, a, io)
Insert ==
    /\ ncmds < MaxCmds
    /\ \E p \in SessionPaths, x \in SessionInserts, io \in SessionIO : insert(p, x[1], x[2], io)
UndoEdit ==
    /\ ncmds < MaxCmds
    /\ \E p \in SessionPaths, io \in SessionIO : undo_edit(p, io)
View ==
    /\ ncmds < MaxCmds
    /\ \E p \in SessionPaths, r \in SessionViews, io \in SessionIO : view(p, r, io)

Next == Create \/ StrReplace \/ Insert \/ UndoEdit \/ View

Spec == Init /\ [][Next]_vars

----------------------------------------------------------------------------
(* One str_replace command on its own: every file content up to MaxInitLen
   characters, under each request of UnitRequests *)

RECURSIVE Strs(_, _)
\* The strings over `alphabet` of at most n characters.
Strs(alphabet, n) ==
    IF n = 0 THEN {<<>>}
    ELSE Strs(alphabet, n - 1)
         \cup {Append(t, c) : t \in Strs(alphabet, n - 1), c \in alphabet}

UnitContents == Strs({"a", NL, TAB}, MaxInitLen)

UnitOld == {<<>>, <<"a">>, <<"a", "a">>, <<NL>>, <<"a", NL>>, <<".">>, <<"^", "a">>, <<TAB>>}
UnitNew == {None, <<"b">>, <<"a", "a">>, <<"b", NL>>}

\* No line selector: first occurrence or line_all, literal or regex.
WholeFileArgs ==
    {Args(o, n, <<>>, <<>>, la, <<>>, <<>>, rx) :
        o \in UnitOld, n \in UnitNew, la \in BOOLEAN, rx \in BOOLEAN}

\* Every combination of supplied selectors, each with a value valid for a file
\* of two lines or more.
CombinedArgs ==
    {Args(<<"a">>, n, ln, lr, la, dl, dr, rx) :
        n \in {None, <<"b">>}, ln \in {<<>>, <<1>>}, lr \in {<<>>, <<1, 2>>},
        la \in BOOLEAN, dl \in {<<>>, <<2>>}, dr \in {<<>>, <<1, 1>>},
        rx \in BOOLEAN}

\* Selector values at and beyond the bounds, alone and beside a selector of
\* higher precedence.
BoundsArgs ==
    {Args(o, <<"b">>, ln, lr, FALSE, dl, dr, FALSE) :
        o \in {<<>>, <<"a">>},
        ln \in {<<>>, <<0>>, <<1, 5>>, <<2, 1, 2>>},
        lr \in {<<>>, <<2, 1>>, <<2, 3>>},
        dl \in {<<>>, <<1>>, <<2, 1, 2>>, <<5>>},
        dr \in {<<>>, <<2, 3>>, <<3, 2>>}}

UnitRequests ==
    {[cmd |-> "str_replace", path |-> "/f1", args |-> a, io |-> "ok"] :
        a \in WholeFileArgs \cup CombinedArgs \cup BoundsArgs}
    \cup
    {[cmd |-> "str_replace", path |-> "/f1", args |-> a, io |-> io] :
        a \in {Args(<<"a">>, <<"b">>, <<>>, <<>>, la, dl, <<>>, FALSE) :
                  la \in BOOLEAN, dl \in {<<>>, <<1>>}},
        io \in IO}

InitReplace ==
    /\ \E c \in UnitContents :
          fs = [p \in Paths |-> IF p = "/f1" THEN File(c)
                                ELSE IF p = "/d" THEN Dir ELSE NoFile]
    /\ file_history = [p \in Paths |-> <<>>]
    /\ last = [cmd |-> "none", path |-> "/f1", pre |-> NoFile,
               status |-> "ok", err |-> "none", out |-> <<>>]
    /\ req \in UnitRequests
    /\ ncmds = 0
    /\ pushes = [p \in Paths |-> 0]
    /\ undos = [p \in Paths |-> 0]
    /\ inflight = Idle

Replace ==
    /\ ncmds = 0
    /\ req.cmd = "str_replace"
    /\ str_replace(req.path, req.args, req.io)

NextReplace == Replace

SpecReplace == InitReplace /\ [][NextReplace]_vars

----------------------------------------------------------------------------
(* Properties of a session: undo and the history ledger *)

\* The step is one command, and it ended as `status` says.
Step(cmd, status) ==
    /\ ncmds' = ncmds + 1
    /\ last'.cmd = cmd
    /\ last'.status = status

\* C1: an undo_edit issued right after a successful create, str_replace or
\* insert on the same path leaves the path exactly as it was just before that
\* command ran (tabs included; nothing there before a create).
C1_UndoRoundTrip ==
    [][(/\ last.cmd \in Mutating
        /\ last.status = "ok"
        /\ Step("undo_edit", "ok")
        /\ last'.path = last.path) => fs'[last.path] = last.pre]_vars

\* C2: for every path the history stack is as long as the successful create,
\* str_replace and insert commands on it minus the successful undo_edit
\* commands on it.
C2_HistoryAccounting ==
    \A p \in Paths : Len(file_history[p]) = pushes[p] - undos[p]

\* C3: a successful str_replace or insert appends the snapshot it took to the
\* path's history; a successful undo_edit writes the last entry of the path's
\* history to the file and removes that entry and no other, so snapshots come
\* back in the reverse of the order they were recorded in.
C3_UndoLastInFirstOut ==
    [][/\ (Step("undo_edit", "ok") =>
             LET p == last'.path
                 h == file_history[p]
             IN  /\ h # <<>>
                 /\ fs'[p] = File(h[Len(h)])
                 /\ file_history' = [file_history EXCEPT ![p] = SubSeq(h, 1, Len(h) - 1)])
       /\ ((Step("str_replace", "ok") \/ Step("insert", "ok")) =>
             LET p == last'.path
             IN  file_history' =
                   [file_history EXCEPT ![p] = Append(@, expandtabs(fs[p].text))])]_vars

\* Two snapshots of /f1 were recorded (by str_replace or insert: the file was
\* there from the start), and the undo just made wrote the later one: the
\* earlier, different one is still on the stack.
C3_Witness ==
    /\ last.cmd = "undo_edit"
    /\ last.status = "ok"
    /\ last.path = "/f1"
    /\ pushes[last.path] >= 2
    /\ Len(file_history[last.path]) = 1
    /\ file_history[last.path][1] # fs[last.path].text

\* C4: undo_edit on an existing file whose history is empty raises the
\* no-history error and changes neither the file nor any history.
C4_UndoNoHistory ==
    [][(/\ ncmds' = ncmds + 1
        /\ last'.cmd = "undo_edit"
        /\ fs[last'.path].kind = "file"
        /\ last'.path \notin RelativePaths
        /\ file_history[last'.path] = <<>>)
       => /\ last'.status = "error"
          /\ last'.err = "NoHistory"
          /\ fs' = fs
          /\ file_history' = file_history]_vars

\* The no-history error on a path whose recorded entries were all consumed by
\* earlier undos.
C4_Witness ==
    /\ last.cmd = "undo_edit"
    /\ last.err = "NoHistory"
    /\ pushes[last.path] >= 1
    /\ undos[last.path] = pushes[last.path]

\* C5: a command that ends by raising leaves every file and every history
\* stack as they were when it started.
C5_ErrorAtomicity ==
    [][(ncmds' = ncmds + 1 /\ last'.status = "error")
       => (fs' = fs /\ file_history' = file_history)]_vars

----------------------------------------------------------------------------
(* Properties of one str_replace command (SpecReplace) *)

ReqArgs == req.args
\* The tab-expanded content the command read, and its lines.
ReadContent == expandtabs(last.pre.text)
ReadLines == split(ReadContent)
OldStr == expandtabs(ReqArgs.old_str)
NewStr == IF ReqArgs.new_str = None THEN <<>> ELSE expandtabs(ReqArgs.new_str)

\* The command ran.
Ran == ncmds = 1 /\ last.cmd = "str_replace"
\* The command got past the guards of __call__ and read the file.
Reached ==
    /\ Ran
    /\ ReqArgs.old_str # None
    /\ ReqArgs.new_str # ReqArgs.old_str
    /\ req.io = "ok"
NoSelector(a) ==
    /\ a.line_numbers = <<>>
    /\ a.line_range = <<>>
    /\ a.delete_lines = <<>>
    /\ a.delete_range = <<>>
\* A literal replace with no selector: first-occurrence mode.
FirstLiteral == Reached /\ NoSelector(ReqArgs) /\ ~ReqArgs.line_all /\ ~ReqArgs.regex

\* The selector the documented precedence order picks.
Winner(a) ==
    IF a.delete_lines # <<>> THEN "delete_lines"
    ELSE IF a.delete_range # <<>> THEN "delete_range"
    ELSE IF a.line_numbers # <<>> THEN "line_numbers"
    ELSE IF a.line_range # <<>> THEN "line_range"
    ELSE IF a.line_all THEN "line_all"
    ELSE "first"

\* The request with every selector but the winner taken away.
Solo(a) ==
    LET w == Winner(a)
    IN  [a EXCEPT !.delete_lines = IF w = "delete_lines" THEN @ ELSE <<>>,
                  !.delete_range = IF w = "delete_range" THEN @ ELSE <<>>,
                  !.line_numbers = IF w = "line_numbers" THEN @ ELSE <<>>,
                  !.line_range = IF w = "line_range" THEN @ ELSE <<>>,
                  !.line_all = IF w = "line_all" THEN @ ELSE FALSE]

\* C6: whatever selectors are supplied together, a successful str_replace
\* writes what the selector of highest precedence alone would write, in the
\* order delete_lines > delete_range > line_numbers > line_range > line_all >
\* first occurrence (so line_all is ignored beside line_numbers or line_range).
C6_SelectorPrecedence ==
    (Ran /\ last.status = "ok") =>
        fs[req.path].text = Resolve(last.pre.text, Solo(ReqArgs)).new_file_content

OutOfRange(xs, n) == \E k \in 1..Len(xs) : xs[k] < 1 \/ xs[k] > n
Reversed(r) == r # <<>> /\ r[1] > r[2]
BadSelector(a, n) ==
    \/ OutOfRange(a.line_numbers, n)
    \/ OutOfRange(a.line_range, n)
    \/ OutOfRange(a.delete_lines, n)
    \/ OutOfRange(a.delete_range, n)
    \/ Reversed(a.line_range)
    \/ Reversed(a.delete_range)

InvalidLineErrors ==
    {"InvalidLine:line_numbers", "InvalidLine:line_range", "InvalidLine:line_range_order",
     "InvalidLine:delete_lines", "InvalidLine:delete_range",
     "InvalidLine:delete_range_order"}

InRange(xs, n) == SelectSeq(xs, LAMBDA x : 1 <= x /\ x <= n)

\* C8: a str_replace by line_numbers in which some line number is out of range
\* does not fail: the out-of-range numbers are skipped and the substitution is
\* applied on the named lines that exist.
C8_OutOfRangeLineSkipped ==
    (/\ Reached
     /\ OldStr # <<>>
     /\ Winner(ReqArgs) = "line_numbers"
     /\ ReqArgs.line_range = <<>>
     /\ ~ReqArgs.line_all
     /\ OutOfRange(ReqArgs.line_numbers, Len(ReadLines))
     /\ InRange(ReqArgs.line_numbers, Len(ReadLines)) # <<>>) =>
        /\ last.status = "ok"
        /\ fs[req.path].text =
             join(ReplaceOnLines(ReadLines,
                    [k \in 1..Len(InRange(ReqArgs.line_numbers, Len(ReadLines))) |->
                        InRange(ReqArgs.line_numbers, Len(ReadLines))[k] - 1],
                    OldStr, NewStr, ReqArgs.regex))

\* The read content with its first occurrence of old_str replaced by new_str.
Spliced ==
    LET i == find(ReadContent, OldStr, 0)
    IN  Slice(ReadContent, 0, i) \o NewStr
        \o Slice(ReadContent, i + Len(OldStr), Len(ReadContent))

Chars(t) == {t[k] : k \in 1..Len(t)}

C10_AmbiguousListsEachOccurrence ==
    (FirstLiteral /\ count(ReadContent, OldStr) >= 2) =>
        /\ last.err = "Ambiguous"
        /\ Len(last.out.lines) = count(ReadContent, OldStr)
        /\ \A k \in 1..Len(last.out.lines) :
              \E i \in 0..Len(ReadContent) :
                  /\ StartsAt(ReadContent, OldStr, i)
                  /\ last.out.lines[k] = countNL(ReadContent, i) + 1

\* old_str occurs somewhere in the content that was read.
Occurs == \E i \in 0..Len(ReadContent) : StartsAt(ReadContent, OldStr, i)

\* C11: a literal str_replace with no selector whose (tab-expanded) old_str does
\* not occur in the tab-expanded content fails with the not-found error, which
\* names old_str and the path, and changes neither the file nor the history.
C11_NotFoundLeavesFile ==
    (FirstLiteral /\ ~Occurs) =>
        /\ last.status = "error"
        /\ last.err = "NotFound"
        /\ last.out.old_str = OldStr
        /\ last.out.path = req.path
        /\ fs = [fs EXCEPT ![req.path] = last.pre]
        /\ file_history = [p \in Paths |-> <<>>]

\* The not-found error on a file that holds every character of old_str, only
\* not next to each other.
C11_Witness ==
    /\ FirstLiteral
    /\ ~Occurs
    /\ last.err = "NotFound"
    /\ Cardinality(Chars(OldStr)) = 2
    /\ Chars(OldStr) \subseteq Chars(ReadContent)

\* The 1-indexed positions the executing delete selector names.
Gone ==
    IF ReqArgs.delete_lines # <<>>
    THEN {ReqArgs.delete_lines[k] : k \in 1..Len(ReqArgs.delete_lines)}
    ELSE {k \in 1..Len(ReadLines) :
             ReqArgs.delete_range[1] <= k /\ k <= ReqArgs.delete_range[2]}

\* The lines that were read minus those at the positions of Gone, in order.
Remaining ==
    LET kept == SelectSeq([k \in 1..Len(ReadLines) |-> k], LAMBDA k : k \notin Gone)
    IN  [j \in 1..Len(kept) |-> ReadLines[kept[j]]]

DeleteRequest == ReqArgs.delete_lines # <<>> \/ ReqArgs.delete_range # <<>>

\* C12: a str_replace with delete_lines (or, without delete_lines, with
\* delete_range) whose selectors are in range succeeds whether or not old_str
\* occurs, and writes the lines it read minus the lines at the given positions
\* (the lines start..end of the range), joined with newlines: every remaining
\* line keeps its text and its place among the others, whatever the order and
\* repetition of the indices.
C12_DeleteRemovesSelectedLines ==
    (Reached /\ DeleteRequest /\ ~BadSelector(ReqArgs, Len(ReadLines))) =>
        /\ last.status = "ok"
        /\ fs[req.path].text = join(Remaining)
        /\ Remaining # <<>> => split(fs[req.path].text) = Remaining
        /\ file_history[req.path] = <<ReadContent>>

\* delete_lines = [2, 1, 2] on a file of three lines or more in which old_str
\* does not occur: the third line onwards is what remains.
C12_Witness ==
    /\ Reached
    /\ ReqArgs.delete_lines = <<2, 1, 2>>
    /\ last.status = "ok"
    /\ ~Occurs
    /\ Len(ReadLines) >= 3
    /\ fs[req.path].text = join(SubSeq(ReadLines, 3, Len(ReadLines)))

\* delete_range = [2, 3] on a file of four lines: the first and the last remain.
C12_WitnessRange ==
    /\ Reached
    /\ ReqArgs.delete_lines = <<>>
    /\ ReqArgs.delete_range = <<2, 3>>
    /\ last.status = "ok"
    /\ Len(ReadLines) = 4
    /\ fs[req.path].text = join(<<ReadLines[1], ReadLines[4]>>)

\* The 1-indexed lines a line_numbers / line_range request names.
Named ==
    IF Winner(ReqArgs) = "line_numbers"
    THEN {ReqArgs.line_numbers[k] : k \in 1..Len(ReqArgs.line_numbers)}
    ELSE {k \in 1..Len(ReadLines) :
             ReqArgs.line_range[1] <= k /\ k <= ReqArgs.line_range[2]}

NoRepeat(xs) == \A i, j \in 1..Len(xs) : xs[i] = xs[j] => i = j

\* C13: in a str_replace by line_numbers (or, without line_numbers, by
\* line_range) with no delete selector, every line that is not named has the
\* text it had before and every named line is the original line with old_str
\* substituted by new_str.  Stated for a new_str without a newline and for
\* line numbers named once each, so that line k of the result is line k of
\* the file that was read.
C13_LineScopedFrame ==
    (/\ Reached
     /\ Winner(ReqArgs) \in {"line_numbers", "line_range"}
     /\ ~BadSelector(ReqArgs, Len(ReadLines))
     /\ NL \notin Chars(NewStr)
     /\ NoRepeat(ReqArgs.line_numbers)) =>
        LET result == split(fs[req.path].text)
        IN  /\ Len(result) = Len(ReadLines)
            /\ \A k \in 1..Len(ReadLines) :
                  result[k] = IF k \in Named
                              THEN SubstLine(ReadLines[k], OldStr, NewStr, ReqArgs.regex)
                              ELSE ReadLines[k]

\* line_all with regex off and no other selector.
LineAllLiteral == Reached /\ NoSelector(ReqArgs) /\ ReqArgs.line_all /\ ~ReqArgs.regex

\* C14: with line_all and regex off, an old_str that contains a newline matches
\* nothing: the command succeeds and writes the lines it read, each with its
\* text unchanged, joined by newlines.  With no selector the same old_str is
\* looked for in the whole content: where it occurs once, that occurrence,
\* which runs over a line boundary, is replaced.
C14_LineAllNeverSpansLines ==
    /\ (LineAllLiteral /\ NL \in Chars(OldStr)) =>
           /\ last.status = "ok"
           /\ fs[req.path].text = join(splitlines(ReadContent))
           /\ splitlines(ReadContent) # <<>> =>
                 split(fs[req.path].text) = splitlines(ReadContent)
    /\ (FirstLiteral /\ NL \in Chars(OldStr) /\ count(ReadContent, OldStr) = 1) =>
           /\ last.status = "ok"
           /\ fs[req.path].text = Spliced
           /\ fs[req.path].text # ReadContent

\* line_all: old_str, a letter and the newline after it, occurs in the content
\* that was read and still does in the content written.
C14_Witness ==
    /\ LineAllLiteral
    /\ Len(OldStr) = 2
    /\ OldStr[2] = NL
    /\ Occurs
    /\ last.status = "ok"
    /\ fs[req.path].text = ReadContent

\* No selector: the same old_str matched over the line boundary and two lines
\* became one.
C14_WitnessFirst ==
    /\ FirstLiteral
    /\ Len(OldStr) = 2
    /\ OldStr[2] = NL
    /\ last.status = "ok"
    /\ Len(split(fs[req.path].text)) < Len(ReadLines)

\* Regex mode with no line selector: first match (line_all off, no DOTALL) or
\* every match (line_all on, DOTALL).
RegexWhole == Reached /\ NoSelector(ReqArgs) /\ ReqArgs.regex
DotAll == ReqArgs.line_all

\* Where pattern p matches in content c.
MatchesIn(c, p, dotall) == {i \in 0..Len(c) : MatchAt(c, p, i, dotall)}

RECURSIVE Scan(_, _, _, _, _)
\* The matches among M (each n characters long) that a scan of content c from
\* position i on takes, P being those taken so far: the scan takes a match
\* where it stands and goes on behind it, or steps on by one character.
Scan(c, n, M, i, P) ==
    IF i > Len(c) THEN P
    ELSE IF i \in M THEN Scan(c, n, M, i + Max(1, n), P \cup {i})
         ELSE Scan(c, n, M, i + 1, P)

RECURSIVE Substituted(_, _, _, _, _)
\* Content c from position i on, with `new` in place of the n characters of
\* the match at each position of P.
Substituted(c, n, new, P, i) ==
    LET here == IF i \in P THEN new ELSE <<>>
    IN  IF i >= Len(c) THEN here
        ELSE IF i \in P /\ n > 0 THEN here \o Substituted(c, n, new, P, i + n)
        ELSE here \o <<c[i + 1]>> \o Substituted(c, n, new, P, i + 1)

\* The matches in the content that was read, and the non-overlapping ones a
\* left-to-right scan takes.
Matches == MatchesIn(ReadContent, OldStr, DotAll)
Taken ==
    LET c == ReadContent
    IN  Scan(c, Len(PatBody(OldStr)), MatchesIn(c, OldStr, DotAll), 0, {})

First(M) == IF M = {} THEN {} ELSE {CHOOSE i \in M : \A j \in M : i <= j}

\* The content read with new_str in place of the matches at the positions P.
WithMatchesReplaced(P) == Substituted(ReadContent, Len(PatBody(OldStr)), NewStr, P, 0)

C15_WitnessAll ==
    /\ RegexWhole
    /\ ReqArgs.line_all
    /\ last.status = "ok"
    /\ Cardinality(Taken) >= 2
    /\ fs[req.path].text # WithMatchesReplaced(First(Matches))

\* The line with the pattern's text at its start replaced by new_str, when the
\* line begins with it.
RewriteStart(line) ==
    IF MatchAt(line, OldStr, 0, FALSE)
    THEN NewStr \o Slice(line, Len(PatBody(OldStr)), Len(line))
    ELSE line

\* C16: a str_replace with regex on, a pattern anchored with "^" and no
\* selector (line_all off) rewrites every line of the file that begins with
\* the pattern, and leaves the other lines as they were.
C16_AnchoredRegexEveryLine ==
    (/\ RegexWhole
     /\ ~ReqArgs.line_all
     /\ Anchored(OldStr)
     /\ NL \notin Chars(OldStr) \cup Chars(NewStr)) =>
        fs[req.path].text = join([k \in 1..Len(ReadLines) |-> RewriteStart(ReadLines[k])])

----------------------------------------------------------------------------
(* One call of the editor on its own (SpecCall): any command, on a file, a
   missing path, a directory or a relative path, with its parameters present,
   absent or out of range, over every file content up to MaxCallLen characters *)

CallContents == Strs({"a", NL, TAB}, MaxCallLen)

Request(cmd, path, io, file_text, view_range, insert_line, new_str, args) ==
    [cmd |-> cmd, path |-> path, io |-> io, file_text |-> file_text,
     view_range |-> view_range, insert_line |-> insert_line, new_str |-> new_str,
     args |-> args]

NoArgs == Args(None, None, <<>>, <<>>, FALSE, <<>>, <<>>, FALSE)

CallInsertLines == {NoLine} \cup (-1..(MaxCallLen + 2))
CallNewStrs == {None, <<>>, <<"b">>, <<"b", NL, "b">>, <<TAB, "b">>}
CallTexts == {None, <<>>, <<TAB, "a">>}
CallViews ==
    {<<>>, <<1>>, <<1, 1>>, <<2, 1>>, <<0, 1>>, <<1, -1>>, <<1, 9>>,
     <<1, 2>>, <<2, 2>>, <<2, -1>>, <<1, -2>>}

\* str_replace requests at the guards of __call__: new_str equal to old_str
\* beside every kind of selector, valid or not; and old_str or new_str absent,
\* empty or ordinary.
CallReplaceArgs ==
    {Args(o, o, ln, <<>>, la, dl, <<>>, rx) :
        o \in {<<>>, <<"a">>, <<TAB>>},
        ln \in {<<>>, <<1>>, <<9>>}, la \in BOOLEAN, dl \in {<<>>, <<1>>},
        rx \in BOOLEAN}
    \cup
    {Args(o, n, <<>>, <<>>, la, dl, <<>>, FALSE) :
        o \in {None, <<>>, <<"a">>, <<TAB>>},
        n \in {None, <<>>, <<"a">>, <<TAB>>, <<"b">>},
        la \in BOOLEAN, dl \in {<<>>, <<1>>}}

CallRequests ==
    {Request("create", p, io, t, <<>>, NoLine, None, NoArgs) :
        p \in Paths, io \in {"ok", "write_denied"}, t \in CallTexts}
    \cup {Request("insert", p, io, None, <<>>, k, n, NoArgs) :
        p \in Paths, io \in {"ok", "read_fail", "write_torn"},
        k \in CallInsertLines, n \in CallNewStrs}
    \cup {Request("str_replace", p, io, None, <<>>, NoLine, None, a) :
        p \in Paths, io \in {"ok", "read_fail"}, a \in CallReplaceArgs}
    \cup {Request("undo_edit", p, io, None, <<>>, NoLine, None, NoArgs) :
        p \in Paths, io \in {"ok", "write_denied"}}
    \cup {Request("view", p, io, None, r, NoLine, None, NoArgs) :
        p \in Paths, io \in {"ok", "read_fail"}, r \in CallViews}
    \cup {Request(c, p, "ok", None, <<>>, NoLine, None,
                   Args(None, None, <<>>, <<>>, FALSE, dl, dr, FALSE)) :
        c \in SchemaCommands \ Command, p \in Paths,
        dl \in {<<>>, <<1>>}, dr \in {<<>>, <<1, 1>>}}

\* The editor after earlier commands: /f1 is a file, with or without a
\* snapshot on its history; /f2 does not exist; /d is a directory; the
\* relative path f3 names a file of the working directory, or nothing.  The
\* state of the path the request names is what varies.
InitCall ==
    /\ req \in CallRequests
    /\ \E c \in IF req.path = "/f1" THEN CallContents ELSE {<<"a">>},
          rel \in IF req.path = "f3" THEN {NoFile, File(<<"a">>)} ELSE {NoFile} :
          fs = [p \in Paths |-> IF p = "/f1" THEN File(c)
                                ELSE IF p = "/d" THEN Dir
                                ELSE IF p = "f3" THEN rel ELSE NoFile]
    /\ \E h \in IF req.path = "/f1" THEN {<<>>, <<<<"a">>>>} ELSE {<<<<"a">>>>} :
          file_history = [p \in Paths |-> IF p = "/f1" THEN h ELSE <<>>]
    /\ last = [cmd |-> "none", path |-> "/f1", pre |-> NoFile,
               status |-> "ok", err |-> "none", out |-> <<>>]
    /\ ncmds = 0
    /\ pushes = [p \in Paths |-> 0]
    /\ undos = [p \in Paths |-> 0]
    /\ inflight = Idle

CallCreate ==
    /\ ncmds = 0
    /\ req.cmd = "create"
    /\ create(req.path, req.file_text, req.io)
CallInsert ==
    /\ ncmds = 0
    /\ req.cmd = "insert"
    /\ insert(req.path, req.insert_line, req.new_str, req.io)
CallUndoEdit ==
    /\ ncmds = 0
    /\ req.cmd = "undo_edit"
    /\ undo_edit(req.path, req.io)
CallView ==
    /\ ncmds = 0
    /\ req.cmd = "view"
    /\ view(req.path, req.view_range, req.io)

CallUnrecognized ==
    /\ ncmds = 0
    /\ req.cmd \notin Command
    /\ unrecognized(req.cmd, req.path, req.args)

\* The same view once more, nothing in between.
CallViewAgain ==
    /\ ncmds = 1
    /\ req.cmd = "view"
    /\ view(req.path, req.view_range, req.io)

NextCall ==
    CallCreate \/ Replace \/ CallInsert \/ CallUndoEdit \/ CallView \/ CallViewAgain
    \/ CallUnrecognized

SpecCall == InitCall /\ [][NextCall]_vars

----------------------------------------------------------------------------
(* Properties of one call (SpecCall) *)

\* The call was made.
Called(cmd) == ncmds = 1 /\ last.cmd = cmd
\* The step is the call of the request, a `cmd` command.
CallStep(cmd) == ncmds = 0 /\ ncmds' = 1 /\ req.cmd = cmd /\ last'.cmd = cmd
\* The step left every file and every history as it found them.
Untouched == fs' = fs /\ file_history' = file_history

\* An insert that got past the guards of __call__ and read the file.
InsertReached ==
    /\ Called("insert")
    /\ validate_path("insert", req.path, last.pre) = "none"
    /\ req.insert_line # NoLine
    /\ req.new_str # None
    /\ req.io = "ok"

InsLines == split(expandtabs(last.pre.text))
InsNew == split(expandtabs(req.new_str))

\* C17: for a file of num_lines (tab-expanded) lines and 0 <= k <= num_lines,
\* insert succeeds and the lines of the result are the first k lines, then
\* the lines of new_str, then the lines from k + 1 on, each with its text; the
\* content that was read is pushed on the path's history and nothing else
\* changes.  For k < 0 or k > num_lines it fails with the invalid-parameter
\* error on insert_line and changes no file and no history.
C17_InsertSplice ==
    [][(/\ CallStep("insert")
        /\ validate_path("insert", req.path, fs[req.path]) = "none"
        /\ req.insert_line # NoLine
        /\ req.new_str # None
        /\ req.io = "ok") =>
        LET k == req.insert_line
            lines == split(expandtabs(fs[req.path].text))
            new == split(expandtabs(req.new_str))
            n == Len(lines)
            m == Len(new)
            result == split(fs'[req.path].text)
        IN  IF 0 <= k /\ k <= n
            THEN /\ last'.status = "ok"
                 /\ Len(result) = n + m
                 /\ \A j \in 1..k : result[j] = lines[j]
                 /\ \A j \in 1..m : result[k + j] = new[j]
                 /\ \A j \in (k + 1)..n : result[m + j] = lines[j]
                 /\ \A p \in Paths \ {req.path} : fs'[p] = fs[p]
                 /\ file_history' = [file_history EXCEPT ![req.path] =
                                        Append(@, expandtabs(fs[req.path].text))]
            ELSE /\ last'.status = "error"
                 /\ last'.err = "InvalidInsertLine"
                 /\ Untouched]_vars

\* An insert of two lines strictly inside a file of three lines or more.
C17_Witness ==
    /\ InsertReached
    /\ last.status = "ok"
    /\ Len(InsNew) = 2
    /\ 0 < req.insert_line
    /\ req.insert_line < Len(InsLines)
    /\ Len(InsLines) >= 3

\* insert_line = num_lines + 1 is refused.
C17_WitnessRefused ==
    /\ InsertReached
    /\ req.insert_line = Len(InsLines) + 1
    /\ last.err = "InvalidInsertLine"

InvalidPathErrors ==
    {"InvalidPath:relative", "InvalidPath:exists", "InvalidPath:missing",
     "InvalidPath:directory"}

\* C18: a str_replace whose new_str equals its old_str changes no file and no
\* history and fails with an invalid-parameter error: on a path that passes
\* validate_path it is the no-op error, raised before the file is read (also
\* when the read would fail) and whatever selectors come with it, valid or
\* not.
C18_NoOpGuard ==
    [][(/\ CallStep("str_replace")
        /\ req.args.old_str # None
        /\ req.args.new_str = req.args.old_str) =>
        /\ last'.status = "error"
        /\ last'.err \in {"NoOp"} \cup InvalidPathErrors
        /\ validate_path("str_replace", req.path, fs[req.path]) = "none"
              => last'.err = "NoOp"
        /\ Untouched]_vars

\* The no-op error although the read would fail, a line number is out of
\* range and a deletion is asked for.
C18_Witness ==
    /\ Called("str_replace")
    /\ last.err = "NoOp"
    /\ req.io = "read_fail"
    /\ req.args.line_numbers = <<9>>
    /\ req.args.delete_lines = <<1>>
    /\ file_history[req.path] # <<>>

\* The step is the call of the request, whatever the command.
AnyCallStep == ncmds = 0 /\ ncmds' = 1 /\ last'.cmd = req.cmd

\* C19: path validation comes before everything else in every command (before
\* the checks for missing parameters and before any read or write) and
\* refuses, the first that applies: a relative path; create on a path that
\* exists; any other command on a path that does not exist; any command but
\* view (and create) on a directory.  Nothing else is refused as a path, and a
\* refused command changes no file and no history.
C19_PathValidatedFirst ==
    [][AnyCallStep =>
        LET f == fs[req.path]
            cmd == req.cmd
            err == last'.err
        IN  /\ req.path \in RelativePaths => err = "InvalidPath:relative"
            /\ (req.path \notin RelativePaths /\ cmd = "create" /\ f.kind # "none")
                  => err = "InvalidPath:exists"
            /\ (req.path \notin RelativePaths /\ cmd # "create" /\ f.kind = "none")
                  => err = "InvalidPath:missing"
            /\ (req.path \notin RelativePaths /\ cmd \notin {"create", "view"}
                   /\ f.kind = "dir")
                  => err = "InvalidPath:directory"
            /\ (/\ req.path \notin RelativePaths
                /\ (cmd = "create") = (f.kind = "none")
                /\ f.kind = "dir" => cmd = "view")
                  => err \notin InvalidPathErrors
            /\ err \in InvalidPathErrors => (last'.status = "error" /\ Untouched)]_vars

\* create with a text, on a file that exists and has a history: refused, and
\* the file is what it was.
C19_Witness ==
    /\ Called("create")
    /\ req.path = "/f1"
    /\ req.file_text # None
    /\ req.io = "ok"
    /\ last.err = "InvalidPath:exists"
    /\ last.pre.text # expandtabs(req.file_text)
    /\ fs[req.path] = last.pre
    /\ file_history[req.path] = <<<<"a">>>>

\* A relative path that names an existing file, in a create without file_text:
\* the relative-path error comes first.
C19_WitnessRelative ==
    /\ Called("create")
    /\ req.path \in RelativePaths
    /\ last.pre.kind = "file"
    /\ req.file_text = None
    /\ last.err = "InvalidPath:relative"

\* The step is the call of the request, on a path that validate_path accepts.
ValidCallStep(cmd) ==
    CallStep(cmd) /\ validate_path(cmd, req.path, fs[req.path]) = "none"

MissingErrors ==
    {"Missing:file_text", "Missing:old_str", "Missing:insert_line", "Missing:new_str"}

\* C20: on a path that validate_path accepts, create without file_text,
\* str_replace without old_str, insert without insert_line and insert with
\* insert_line but without new_str fail with the missing-parameter error that
\* names the parameter, and change no file and no history.  A parameter that
\* is given is never reported missing, an empty string and line 0 included:
\* create with file_text = '' creates an empty file.
C20_MissingParameter ==
    [][/\ (ValidCallStep("create") /\ req.file_text = None)
            => (last'.err = "Missing:file_text" /\ Untouched)
       /\ (ValidCallStep("str_replace") /\ req.args.old_str = None)
            => (last'.err = "Missing:old_str" /\ Untouched)
       /\ (ValidCallStep("insert") /\ req.insert_line = NoLine)
            => (last'.err = "Missing:insert_line" /\ Untouched)
       /\ (ValidCallStep("insert") /\ req.insert_line # NoLine /\ req.new_str = None)
            => (last'.err = "Missing:new_str" /\ Untouched)
       /\ (ValidCallStep("create") /\ req.file_text # None)
            => last'.err # "Missing:file_text"
       /\ (ValidCallStep("str_replace") /\ req.args.old_str # None)
            => last'.err # "Missing:old_str"
       /\ (ValidCallStep("insert") /\ req.insert_line # NoLine)
            => last'.err # "Missing:insert_line"
       /\ (ValidCallStep("insert") /\ req.new_str # None)
            => last'.err # "Missing:new_str"
       /\ (AnyCallStep /\ req.cmd \in {"view", "undo_edit"})
            => last'.err \notin MissingErrors
       /\ (ValidCallStep("create") /\ req.file_text = <<>> /\ req.io = "ok")
            => /\ last'.status = "ok"
               /\ fs' = [fs EXCEPT ![req.path] = File(<<>>)]]_vars

\* create without file_text on a path where nothing exists: the error, and
\* still nothing there.
C20_Witness ==
    /\ Called("create")
    /\ req.file_text = None
    /\ last.err = "Missing:file_text"
    /\ last.pre = NoFile
    /\ fs[req.path] = NoFile

\* create with file_text = '' made an empty file.
C20_WitnessEmpty ==
    /\ Called("create")
    /\ req.file_text = <<>>
    /\ last.status = "ok"
    /\ last.pre = NoFile
    /\ fs[req.path] = File(<<>>)

\* C21: a view, whether it succeeds or fails, with or without view_range, on
\* a file, a directory, a missing or a relative path, changes no file and no
\* history; and the same view made again right after it ends the same way,
\* with the same output.
C21_ViewReadOnlyIdempotent ==
    [][/\ (ncmds' = ncmds + 1 /\ last'.cmd = "view") => Untouched
       /\ (ncmds = 1 /\ ncmds' = 2) =>
             /\ last'.status = last.status
             /\ last'.err = last.err
             /\ last'.out = last.out]_vars

\* The second of two views of lines 1..end of a file that holds a tab and has
\* a history: output shown, file and history as before.
C21_Witness ==
    /\ ncmds = 2
    /\ last.cmd = "view"
    /\ last.status = "ok"
    /\ req.view_range = <<1, -1>>
    /\ TAB \in Chars(fs[req.path].text)
    /\ fs[req.path] = last.pre
    /\ file_history[req.path] # <<>>

\* A view of a file with a view_range of two integers that read the file.
ViewRangeReached ==
    /\ Called("view")
    /\ validate_path("view", req.path, last.pre) = "none"
    /\ last.pre.kind = "file"
    /\ req.io = "ok"
    /\ Len(req.view_range) = 2

ViewLines == split(last.pre.text)
ViewStart == req.view_range[1]
ViewEnd == req.view_range[2]
ViewRangeErrors ==
    {"InvalidViewRange:start", "InvalidViewRange:end", "InvalidViewRange:order"}

\* C22: view with view_range [start, end] on a file of num_lines lines
\* succeeds exactly when 1 <= start <= num_lines, end <= num_lines and
\* (end = -1 or end >= start); it then shows lines start..end (start..num_lines
\* when end = -1), one numbered row each, tabs shown expanded, the first row
\* numbered start; otherwise it fails with the invalid-parameter error on
\* view_range.
C22_ViewRange ==
    ViewRangeReached =>
        LET num_lines == Len(ViewLines)
            valid == /\ 1 <= ViewStart /\ ViewStart <= num_lines
                     /\ ViewEnd <= num_lines
                     /\ (ViewEnd = -1 \/ ViewEnd >= ViewStart)
            stop == IF ViewEnd = -1 THEN num_lines ELSE ViewEnd
        IN  /\ (last.status = "ok") <=> valid
            /\ ~valid => last.err \in ViewRangeErrors
            /\ valid =>
                  last.out.output =
                      [k \in 1..(stop - ViewStart + 1) |->
                          <<ViewStart + k - 1, expandtabs(ViewLines[ViewStart + k - 1])>>]

\* Lines 2..2 of a file of at least three lines are shown as one row numbered 2.
C22_Witness ==
    /\ ViewRangeReached
    /\ req.view_range = <<2, 2>>
    /\ Len(ViewLines) >= 3
    /\ last.status = "ok"
    /\ Len(last.out.output) = 1
    /\ last.out.output[1][1] = 2

\* The range [2, 1] of a two-line file is refused: end is before start.
C22_WitnessRefused ==
    /\ ViewRangeReached
    /\ req.view_range = <<2, 1>>
    /\ Len(ViewLines) = 2
    /\ last.err = "InvalidViewRange:order"

----------------------------------------------------------------------------
(* The invalid-parameter exception.  A field holds a parameter's name, a     *)
(* parameter's value or a hint text; each is tagged with what it is.         *)

Name(n) == <<"name", n>>
Value(v) == <<"value", v>>
Hint(h) == <<"hint", h>>

\* EditorToolParameterInvalidError.__init__(command, parameter, value), hint
\* left at its default None: the fields and the pieces of the message (the
\* back quotes around the first two left out).
EditorToolParameterInvalidError(command, parameter, value) ==
    [command |-> command, parameter |-> parameter, value |-> value,
     message |-> <<"Invalid ", parameter, " parameter for command ", command,
                   ": ", value, ".">>]

InvalidViewRangeErrors ==
    {"InvalidViewRange:directory", "InvalidViewRange:shape"} \cup ViewRangeErrors

InvalidParameterErrors ==
    InvalidPathErrors \cup InvalidViewRangeErrors \cup {"NoOp", "InvalidInsertLine"}

\* The exception object the editor builds where it raises the invalid-parameter
\* error `err` for request r: every raise passes three positional arguments,
\* the parameter's name, its value and a hint.
invalid_parameter_error(err, r) ==
    IF err \in InvalidPathErrors
    THEN EditorToolParameterInvalidError(Name("path"), Value(r.path), Hint(err))
    ELSE IF err = "NoOp"
    THEN EditorToolParameterInvalidError(Name("new_str"), Value(r.args.new_str), Hint(err))
    ELSE IF err = "InvalidInsertLine"
    THEN EditorToolParameterInvalidError(Name("insert_line"), Value(r.insert_line), Hint(err))
    ELSE EditorToolParameterInvalidError(Name("view_range"), Value(r.view_range), Hint(err))

\* The parameter an invalid-parameter error is about, and the value refused.
RejectedName ==
    IF last.err \in InvalidPathErrors THEN "path"
    ELSE IF last.err = "NoOp" THEN "new_str"
    ELSE IF last.err = "InvalidInsertLine" THEN "insert_line"
    ELSE "view_range"
RejectedValue ==
    IF last.err \in InvalidPathErrors THEN req.path
    ELSE IF last.err = "NoOp" THEN req.args.new_str
    ELSE IF last.err = "InvalidInsertLine" THEN req.insert_line
    ELSE req.view_range

\* C23: every invalid-parameter error names the parameter that was refused:
\* its `parameter` field, and the 'Invalid `<name>` parameter' part of its
\* message, is that parameter's name, and its `value` field is the value that
\* was refused.
C23_InvalidErrorNamesParameter ==
    (ncmds = 1 /\ last.err \in InvalidParameterErrors) =>
        LET e == invalid_parameter_error(last.err, req)
        IN  /\ e.parameter = Name(RejectedName)
            /\ e.value = Value(RejectedValue)
            /\ e.message[2] = Name(RejectedName)

\* C24: every command of the published schema is accepted by the editor; a
\* `delete` of an existing file that names lines to delete (delete_lines, or
\* start and end) is carried out as a line deletion and is not refused as an
\* unrecognized command.
C24_SchemaCommandsAccepted ==
    /\ (ncmds = 1 /\ last.cmd \in SchemaCommands) => last.err # "UnrecognizedCommand"
    /\ (/\ Called("delete")
        /\ validate_path("delete", req.path, last.pre) = "none"
        /\ (req.args.delete_lines # <<>> \/ req.args.delete_range # <<>>))
       => /\ last.status = "ok"
          /\ Len(split(fs[req.path].text)) < Len(split(last.pre.text))

----------------------------------------------------------------------------
(* Snippets.                                                                 *)

\* A successful str_replace that returned a snippet.
SnippetReturned ==
    /\ ncmds = 1
    /\ last.cmd = "str_replace"
    /\ last.status = "ok"
    /\ last.out.branch \notin {"delete_lines", "delete_range"}

OldLines == split(last.out.old_content)
NewLines == split(last.out.new_content)

\* The first line (1-indexed) at which the new content differs from the old.
FirstChanged ==
    LET n == Max(Len(OldLines), Len(NewLines))
        differs(k) == \/ k > Len(OldLines) \/ k > Len(NewLines)
                      \/ OldLines[k] # NewLines[k]
    IN  CHOOSE k \in 1..n : differs(k) /\ \A j \in 1..(k - 1) : ~differs(j)

\* The line numbers the snippet shows.
Shown == {last.out.snippet[k][1] : k \in DOMAIN last.out.snippet}

\* C25: the snippet of a successful str_replace is placed on the line that
\* was changed: whatever the mode (first occurrence, line_numbers, line_range,
\* line_all; literal or regex), the first changed line of the new content is
\* one of the lines the snippet shows.
C25_SnippetWindowOnChange ==
    (/\ SnippetReturned
     /\ last.out.old_content # last.out.new_content
     /\ FirstChanged <= Len(NewLines))
    => FirstChanged \in Shown

\* A successful insert or str_replace that returned a snippet.
AnySnippetReturned ==
    /\ ncmds = 1
    /\ last.status = "ok"
    /\ \/ last.cmd = "insert"
       \/ SnippetReturned

\* C26: every row of the snippet of a successful str_replace or insert shows
\* a line of the new content under the number that line has there, and the
\* snippet of an insert after line k shows every inserted line, k + 1 onward.
C26_SnippetNumbersAccurate ==
    AnySnippetReturned =>
        /\ \A k \in DOMAIN last.out.snippet :
              LET row == last.out.snippet[k]
              IN  /\ row[1] \in 1..Len(NewLines)
                  /\ row[2] = NewLines[row[1]]
        /\ last.cmd = "insert" =>
              \A j \in 1..Len(InsNew) : req.insert_line + j \in Shown

----------------------------------------------------------------------------
\* C27: what a successful create, str_replace, insert or undo_edit wrote is
\* tab-normalized: after any sequence of commands, the file the last
\* successful mutating command wrote holds no tab character.
C27_NoTabAfterWrite ==
    (/\ last.status = "ok"
     /\ last.cmd \in Mutating \cup {"undo_edit"})
    => TAB \notin Chars(fs[last.path].text)

\* A successful literal str_replace by line_numbers, line_range or line_all,
\* with no delete selector.
LineModeLiteral ==
    /\ Reached
    /\ last.status = "ok"
    /\ ~ReqArgs.regex
    /\ ReqArgs.delete_lines = <<>> /\ ReqArgs.delete_range = <<>>
    /\ (ReqArgs.line_numbers # <<>> \/ ReqArgs.line_range # <<>> \/ ReqArgs.line_all)

\* C28: splitting into lines and joining again loses nothing: a literal
\* str_replace by line_numbers, line_range or line_all that finds old_str in
\* none of its lines (here: in no line of the file, whichever lines it
\* targets) writes exactly the tab-expanded content it read, trailing newline
\* and empty lines included.
C28_SplitJoinLossless ==
    (/\ LineModeLiteral
     /\ \A k \in 1..Len(ReadLines) : count(ReadLines[k], OldStr) = 0)
    => fs[req.path].text = ReadContent

\* C29: every successful str_replace changes the file: the content it wrote
\* (and pushed a snapshot for) differs from the tab-expanded content it read.
C29_SuccessChangesFile ==
    (Ran /\ last.status = "ok") =>
        /\ last.out.new_content # last.out.old_content
        /\ fs[req.path].text # ReadContent

----------------------------------------------------------------------------
(* One str_replace or insert whose read and write are two steps, with        *)
(* another process that may write the file between them, and an undo_edit     *)
(* after the command.  The editor takes no lock.                             *)

MaxRaceLen == 3
RaceContents == Strs({"a", NL}, MaxRaceLen) \cup {<<TAB, "a">>}
\* What the other process writes.
RaceExternal == {<<>>, <<"x">>, <<"a", NL, "x">>}

RaceRequests ==
    {Request("str_replace", "/f1", "ok", None, <<>>, NoLine, None,
             Args(<<"a">>, <<"b">>, ln, <<>>, la, <<>>, <<>>, FALSE)) :
        ln \in {<<>>, <<1>>}, la \in BOOLEAN}
    \cup {Request("insert", "/f1", "ok", None, <<>>, k, <<"b">>, NoArgs) : k \in 0..2}

InitRace ==
    /\ req \in RaceRequests
    /\ \E c \in RaceContents :
          fs = [p \in Paths |-> IF p = "/f1" THEN File(c)
                                ELSE IF p = "/d" THEN Dir ELSE NoFile]
    /\ \E h \in {<<>>, <<<<"a">>>>} :
          file_history = [p \in Paths |-> IF p = "/f1" THEN h ELSE <<>>]
    /\ last = [cmd |-> "none", path |-> "/f1", pre |-> NoFile,
               status |-> "ok", err |-> "none", out |-> <<>>]
    /\ ncmds = 0
    /\ pushes = [p \in Paths |-> 0]
    /\ undos = [p \in Paths |-> 0]
    /\ inflight = Idle

\* The command up to and including its read_file: the path is valid and the
\* required parameters are there, the content is now in a local variable.
RaceRead ==
    /\ ncmds = 0
    /\ inflight = Idle
    /\ validate_path(req.cmd, req.path, fs[req.path]) = "none"
    /\ inflight' = [pc |-> "read", file_content |-> fs[req.path].text]
    /\ UNCHANGED <<fs, file_history, last, req, ncmds, pushes, undos>>

\* Another process writes the file while the command is between its read
\* and its write.
ExternalWrite ==
    /\ inflight.pc = "read"
    /\ \E t \in RaceExternal :
          /\ t # fs[req.path].text
          /\ fs' = [fs EXCEPT ![req.path] = File(t)]
    /\ UNCHANGED <<file_history, last, req, ncmds, pushes, undos, inflight>>

\* A str_replace that refuses to write when the file is no longer what it read.
RaceReplace_detecting ==
    /\ inflight.pc = "read"
    /\ req.cmd = "str_replace"
    /\ IF fs[req.path].text # inflight.file_content
       THEN Raise("str_replace", req.path, req.args, "Conflict")
       ELSE str_replace_with(req.path, req.args, req.io, inflight.file_content)

\* The rest of the str_replace, from the content it read to its return.
RaceReplace ==
    /\ inflight.pc = "read"
    /\ req.cmd = "str_replace"
    /\ str_replace_with(req.path, req.args, req.io, inflight.file_content)

\* The rest of the insert, from the content it read to its return.
RaceInsert ==
    /\ inflight.pc = "read"
    /\ req.cmd = "insert"
    /\ insert_with(req.path, req.insert_line, req.new_str, req.io,
                   inflight.file_content)

\* The undo_edit that follows the command.
RaceUndoEdit ==
    /\ ncmds = 1
    /\ undo_edit(req.path, "ok")

NextRace == RaceRead \/ ExternalWrite \/ RaceReplace \/ RaceInsert \/ RaceUndoEdit

SpecRace == InitRace /\ [][NextRace]_vars

\* The step is the write and return of a command whose file another process
\* changed after the command read it.
RacedStep ==
    /\ inflight.pc = "read"
    /\ ncmds' = 1
    /\ fs[req.path].text # inflight.file_content

\* C30: when another process changes the file between the read and the write
\* of a str_replace or insert, the command ends as it would have without the
\* change (it succeeds wherever the content it read allows it), the file it
\* leaves is computed from the content it read alone, so the other process's
\* change is lost, the snapshot it pushes is the (tab-expanded) content it
\* read, and an undo_edit that follows writes that snapshot back, not the
\* other process's text.
C30_ExternalWriteLost ==
    [][/\ (RacedStep /\ req.cmd = "str_replace") =>
             LET read == inflight.file_content
                 r == Resolve(read, req.args)
             IN  /\ last'.err = r.raises
                 /\ r.raises = "none" =>
                       /\ fs'[req.path].text = r.new_file_content
                       /\ last'.out.old_content = expandtabs(read)
                       /\ file_history'[req.path] =
                              Append(file_history[req.path], expandtabs(read))
       /\ (RacedStep /\ req.cmd = "insert") =>
             LET read == inflight.file_content
                 lines == split(expandtabs(read))
                 k == req.insert_line
             IN  /\ (last'.status = "ok") <=> (k <= Len(lines))
                 /\ k <= Len(lines) =>
                       /\ split(fs'[req.path].text) =
                              Slice(lines, 0, k) \o <<req.new_str>> \o Slice(lines, k, Len(lines))
                       /\ last'.out.old_content = expandtabs(read)
                       /\ file_history'[req.path] =
                              Append(file_history[req.path], expandtabs(read))
       /\ (ncmds = 1 /\ ncmds' = 2 /\ last.status = "ok") =>
             /\ last'.status = "ok"
             /\ fs'[req.path].text = last.out.old_content]_vars

\* The command read a file that holds an `a`, the other process then wrote
\* `x`, and the str_replace succeeded: the file holds neither what was read
\* nor the `x`.
C30_Witness ==
    /\ ncmds = 1
    /\ last.cmd = "str_replace"
    /\ last.status = "ok"
    /\ last.pre.text = <<"x">>
    /\ "a" \in Chars(last.out.old_content)
    /\ "x" \notin Chars(fs[req.path].text)
    /\ fs[req.path].text # last.out.old_content

\* The undo_edit after such an insert put back the content that was read.
C30_WitnessUndo ==
    /\ ncmds = 2
    /\ last.cmd = "undo_edit"
    /\ last.status = "ok"
    /\ req.cmd = "insert"
    /\ "b" \in Chars(last.pre.text)
    /\ fs[req.path].text = <<"a", NL, "a">>

====
